---- MODULE Spec2Model ----
(***************************************************************************)
(* Model of hallib-rs src/lib.rs: the fixed-capacity KeyString (a 64-byte  *)
(* buffer holding UTF-8 text, zero padded) and the free function           *)
(* bytes_to_str.                                                           *)
(*                                                                         *)
(* Bytes are integers 0..255.  A byte slice or &str is a sequence of       *)
(* bytes; the Rust index i is the TLA+ index i+1 (see At).  A &str is a    *)
(* byte sequence that std::str::from_utf8 accepts.                         *)
(***************************************************************************)
EXTENDS Integers, Sequences, FiniteSets, TLC

VARIABLES
    inner,   \* the KeyString under construction / mutation: its [u8;64]
    other,   \* a copy of an earlier value (KeyString is Copy)
    op,      \* the operation that ran last
    arg,     \* its argument (a &str or &[u8]), <<>> if it takes none
    pre,     \* push, rebuild: the buffer before the call
    ret,     \* how the call ended: "Ok", "Err" (Utf8Error) or "panic"
    out,     \* the text a call returned (Display, bytes_to_str)
    rel      \* the results of == and cmp on (inner, other)

vars == <<inner, other, op, arg, pre, ret, out, rel>>

\* [u8;64]: the capacity of KeyString.inner
Cap == 64

----------------------------------------------------------------------------
\* Bounds of the inputs the model enumerates.

\* short inputs: 0..ShortMax pad bytes
ShortMax == 2
\* long inputs: Cap-Near .. Cap+Over pad bytes
Near == 3
Over == 1
\* longest text handed to push
MaxPush == 3
\* bytes_to_str inputs: leading / trailing zero bytes
MaxLead == 3
MaxTrail == 3

----------------------------------------------------------------------------
\* Rust slice indexing: bytes[i], 0-based
At(bytes, i) == bytes[i + 1]

\* Rust slice bytes[lo..hi]
Slice(bytes, lo, hi) == SubSeq(bytes, lo + 1, hi)

Min(a, b) == IF a < b THEN a ELSE b

\* [0u8; 64]
Zeroed == [i \in 1..Cap |-> 0]

IsCont(x) == x >= 128 /\ x <= 191

\* std::str::from_utf8's validation (well-formed UTF-8 byte sequences,
\* Unicode table 3-7), from the 0-based index i to the end of b.
RECURSIVE Utf8ValidFrom(_, _)
Utf8ValidFrom(b, i) ==
    LET n == Len(b) IN
    IF i >= n THEN TRUE
    ELSE LET x == At(b, i) IN
      IF x < 128 THEN Utf8ValidFrom(b, i + 1)
      ELSE IF x >= 194 /\ x <= 223 THEN
          /\ i + 1 < n
          /\ IsCont(At(b, i + 1))
          /\ Utf8ValidFrom(b, i + 2)
      ELSE IF x >= 224 /\ x <= 239 THEN
          /\ i + 2 < n
          /\ LET y == At(b, i + 1) IN
               CASE x = 224 -> y >= 160 /\ y <= 191
                 [] x = 237 -> y >= 128 /\ y <= 159
                 [] OTHER   -> IsCont(y)
          /\ IsCont(At(b, i + 2))
          /\ Utf8ValidFrom(b, i + 3)
      ELSE IF x >= 240 /\ x <= 244 THEN
          /\ i + 3 < n
          /\ LET y == At(b, i + 1) IN
               CASE x = 240 -> y >= 144 /\ y <= 191
                 [] x = 244 -> y >= 128 /\ y <= 143
                 [] OTHER   -> IsCont(y)
          /\ IsCont(At(b, i + 2))
          /\ IsCont(At(b, i + 3))
          /\ Utf8ValidFrom(b, i + 4)
      ELSE FALSE

\* std::str::from_utf8(b): Ok(the same bytes as text) or Err(Utf8Error)
from_utf8(b) ==
    IF Utf8ValidFrom(b, 0) THEN [tag |-> "Ok", val |-> b]
                           ELSE [tag |-> "Err", val |-> <<>>]

----------------------------------------------------------------------------
\* KeyString::new / Default::default
new == Zeroed

\* dst[lo..hi].copy_from_slice(&src[lo..hi])
CopyPrefix(dst, src, hi) ==
    [i \in 1..Len(dst) |-> IF i <= hi THEN src[i] ELSE dst[i]]

\* the shrink loop of From<&str>: the final value of `min`
RECURSIVE from_shrink(_, _)
from_shrink(buf, min) ==
    IF min = 0 THEN 0
    ELSE IF from_utf8(Slice(buf, 0, min)).tag = "Ok" THEN min
    ELSE from_shrink(buf, min - 1)

\* impl From<&str> for KeyString: the buffer is returned as copied; the
\* value of `min` the loop computes is not used after the loop.
from(s) ==
    LET min0  == Min(Len(s), Cap)
        buf   == CopyPrefix(Zeroed, s, min0)
        min   == from_shrink(buf, min0)
    IN  buf

\* a variant of try_from that validates the argument, not the padded buffer
try_from_unpadded(s) ==
    LET min == Min(Len(s), Cap)
        buf == CopyPrefix(Zeroed, s, min)
    IN  IF from_utf8(s).tag = "Ok"
        THEN [tag |-> "Ok", val |-> buf]
        ELSE [tag |-> "Err", val |-> <<>>]

\* impl TryFrom<&[u8]> for KeyString
try_from(s) ==
    LET min == Min(Len(s), Cap)
        buf == CopyPrefix(Zeroed, s, min)
    IN  IF from_utf8(buf).tag = "Ok"
        THEN [tag |-> "Ok", val |-> buf]
        ELSE [tag |-> "Err", val |-> <<>>]

\* KeyString::len: the count of bytes before the first zero byte
RECURSIVE len_from(_, _)
len_from(buf, output) ==
    IF output >= Len(buf) THEN output
    ELSE IF At(buf, output) = 0 THEN output
    ELSE len_from(buf, output + 1)

len(buf) == len_from(buf, 0)

\* the first loop of push: one past the LAST index holding a zero byte
RECURSIVE push_end_index(_, _, _)
push_end_index(buf, index, end_index) ==
    IF index >= Len(buf) THEN end_index
    ELSE push_end_index(buf, index + 1,
                        IF At(buf, index) = 0 THEN index + 1 ELSE end_index)

\* the second loop of push: byte-wise writes; an index past the buffer panics
\* (bounds check), the bytes written before it stay written
RECURSIVE push_write(_, _, _, _)
push_write(buf, s, end_index, index) ==
    IF index >= Len(s) THEN [buf |-> buf, panic |-> FALSE]
    ELSE IF index + end_index >= Len(buf) THEN [buf |-> buf, panic |-> TRUE]
    ELSE push_write([buf EXCEPT ![index + end_index + 1] = At(s, index)],
                    s, end_index, index + 1)

\* a variant of the capacity test that is off by one
push_guard_off_by_one(buf, s) == len(buf) + Len(s) > Cap + 1

\* push: `if self.len() + s.len() > 64 { return }`
push_guard(buf, s) == len(buf) + Len(s) > Cap

\* KeyString::push
push(buf, s) ==
    IF push_guard(buf, s) THEN [buf |-> buf, panic |-> FALSE]
    ELSE push_write(buf, s, push_end_index(buf, 0, 0), 0)

\* KeyString::as_bytes
as_bytes(buf) == Slice(buf, 0, len(buf))

\* KeyString::as_str: from_utf8_unchecked over inner[0..len()].  The result
\* is modelled by the bytes the returned &str points to; it is a well-formed
\* string only if those bytes are valid UTF-8.
as_str(buf) == Slice(buf, 0, len(buf))

\* a variant of raw that returns the logical slice
raw_logical(buf) == Slice(buf, 0, len(buf))

\* KeyString::raw
raw(buf) == buf

\* derive(PartialEq): field-wise equality of the 64-byte arrays
eq(a, b) == a = b

\* <str as Ord>::cmp: lexicographic on bytes
RECURSIVE str_cmp(_, _, _)
str_cmp(x, y, i) ==
    IF i >= Len(x) /\ i >= Len(y) THEN "Equal"
    ELSE IF i >= Len(x) THEN "Less"
    ELSE IF i >= Len(y) THEN "Greater"
    ELSE IF At(x, i) < At(y, i) THEN "Less"
    ELSE IF At(x, i) > At(y, i) THEN "Greater"
    ELSE str_cmp(x, y, i + 1)

\* impl Ord for KeyString
cmp(a, b) == str_cmp(as_str(a), as_str(b), 0)

\* bytes_to_str, first loop: index (= start) of the first non-zero byte
RECURSIVE skip_zeros(_, _)
skip_zeros(bytes, index) ==
    IF index >= Len(bytes) THEN index
    ELSE IF At(bytes, index) # 0 THEN index
    ELSE skip_zeros(bytes, index + 1)

\* bytes_to_str, second loop: index (= stop) of the first zero byte from index
RECURSIVE scan_text(_, _)
scan_text(bytes, index) ==
    IF index >= Len(bytes) THEN index
    ELSE IF At(bytes, index) = 0 THEN index
    ELSE scan_text(bytes, index + 1)

\* a variant of the guard without the `- 1`
bytes_to_str_guard_len(bytes, start) == start >= Len(bytes)

\* bytes_to_str: `if start >= bytes.len()-1 { return Ok("") }`
bytes_to_str_guard(bytes, start) == start >= Len(bytes) - 1

\* pub fn bytes_to_str
bytes_to_str(bytes) ==
    LET start == skip_zeros(bytes, 0) IN
    IF Len(bytes) = 0 THEN [tag |-> "Ok", val |-> <<>>]
    ELSE IF bytes_to_str_guard(bytes, start) THEN [tag |-> "Ok", val |-> <<>>]
    ELSE LET stop == scan_text(bytes, start) IN
         from_utf8(Slice(bytes, start, stop))

\* impl Display for KeyString: bytes_to_str(&self.inner).expect(..), then write
display(buf) ==
    LET text == bytes_to_str(buf) IN
    IF text.tag = "Ok" THEN [tag |-> "Ok", val |-> text.val]
                       ELSE [tag |-> "panic", val |-> <<>>]

----------------------------------------------------------------------------
\* Inputs.  A long input is n bytes 'a' followed by a short tail; the tails
\* hold a zero byte, the 2-byte and 3-byte characters U+00E9 (C3 A9) and
\* U+20AC (E2 82 AC), and cut or stray pieces of them.

Pad(n) == [i \in 1..n |-> 97]

Zeros(n) == [i \in 1..n |-> 0]

Tails ==
    { <<>>, <<0>>, <<98>>, <<0, 98>>, <<195, 169>>, <<0, 195, 169>>,
      <<226, 130, 172>>, <<195>>, <<169>>, <<226, 130>>, <<98, 0, 98>> }

PadLens == (0..ShortMax) \cup ((Cap - Near)..(Cap + Over))

\* &[u8] arguments: arbitrary bytes
ByteInputs == { Pad(n) \o t : n \in PadLens, t \in Tails }

\* &str arguments: the type admits valid UTF-8 only
Texts == { b \in ByteInputs : from_utf8(b).tag = "Ok" }

PushTexts == { t \in Texts : Len(t) <= MaxPush }

CmpTexts == { t \in Texts : Len(t) <= ShortMax + 1 }

DecodeMids ==
    { <<>>, <<107>>, <<107, 101, 121>>, <<195, 169>>, <<195>>, <<107, 195>>,
      <<169, 107>>, <<226, 130, 172>> }

DecodeTails == { <<>>, <<120>>, <<255>> }

DecodeInputs ==
    { Zeros(i) \o m \o Zeros(j) \o t :
        i \in 0..MaxLead, m \in DecodeMids, j \in 0..MaxTrail, t \in DecodeTails }

\* the calls of the two constructors on these inputs, with their results
FromCalls == { [arg |-> t, res |-> from(t)] : t \in Texts }

TryFromCalls == { [arg |-> b, res |-> try_from(b)] : b \in ByteInputs }

CmpFromCalls == { c \in FromCalls : c.arg \in CmpTexts }

CmpTryFromCalls == { c \in TryFromCalls : c.arg \in CmpTexts }

NoRel == [eq |-> FALSE, ord |-> "none"]

----------------------------------------------------------------------------
\* The state after `let mut k = KeyString::new();`
Init ==
    /\ inner = new
    /\ other = new
    /\ op = "new"
    /\ arg = <<>>
    /\ pre = <<>>
    /\ ret = "Ok"
    /\ out = <<>>
    /\ rel = NoRel

\* k = KeyString::new()   (also KeyString::default())
New ==
    /\ inner' = new
    /\ op' = "new"
    /\ arg' = <<>>
    /\ pre' = <<>>
    /\ ret' = "Ok"
    /\ out' = <<>>
    /\ UNCHANGED <<other, rel>>

\* k = KeyString::from(t), for a call c = [arg |-> t, res |-> from(t)]
From(calls) ==
    \E c \in calls :
        /\ inner' = c.res
        /\ op' = "from"
        /\ arg' = c.arg
        /\ pre' = <<>>
        /\ ret' = "Ok"
        /\ out' = <<>>
        /\ UNCHANGED <<other, rel>>

\* if let Ok(v) = KeyString::try_from(b) { k = v },
\* for a call c = [arg |-> b, res |-> try_from(b)]
TryFrom(calls) ==
    \E c \in calls :
        /\ inner' = IF c.res.tag = "Ok" THEN c.res.val ELSE inner
        /\ op' = "try_from"
        /\ arg' = c.arg
        /\ pre' = <<>>
        /\ ret' = c.res.tag
        /\ out' = <<>>
        /\ UNCHANGED <<other, rel>>

\* k = KeyString::try_from(k.raw()), after a successful try_from
Rebuild ==
    /\ op = "try_from"
    /\ ret = "Ok"
    /\ LET r == try_from(raw(inner)) IN
        /\ inner' = IF r.tag = "Ok" THEN r.val ELSE inner
        /\ ret' = r.tag
    /\ op' = "rebuild"
    /\ arg' = <<>>
    /\ pre' = inner
    /\ out' = <<>>
    /\ UNCHANGED <<other, rel>>

\* k.push(s); a value whose call panicked is not used again
Push(T) ==
    /\ ret # "panic"
    /\ \E s \in T :
        LET r == push(inner, s) IN
        /\ inner' = r.buf
        /\ op' = "push"
        /\ arg' = s
        /\ pre' = inner
        /\ ret' = IF r.panic THEN "panic" ELSE "Ok"
        /\ out' = <<>>
        /\ UNCHANGED <<other, rel>>

\* format!("{}", k)
Display ==
    /\ ret # "panic"
    /\ LET r == display(inner) IN
        /\ ret' = r.tag
        /\ out' = r.val
    /\ op' = "display"
    /\ arg' = <<>>
    /\ pre' = <<>>
    /\ UNCHANGED <<inner, other, rel>>

Next ==
    \/ New
    \/ From(FromCalls)
    \/ TryFrom(TryFromCalls)
    \/ Rebuild
    \/ Push(PushTexts)
    \/ Display

Spec == Init /\ [][Next]_vars

----------------------------------------------------------------------------
\* Two values: equality and ordering.

\* let other = k;
Snapshot ==
    /\ ret # "panic"
    /\ other' = inner
    /\ op' = "copy"
    /\ arg' = <<>>
    /\ pre' = <<>>
    /\ ret' = "Ok"
    /\ out' = <<>>
    /\ rel' = NoRel
    /\ UNCHANGED inner

\* k == other, k.cmp(&other)
Compare ==
    /\ ret # "panic"
    /\ rel' = [eq |-> eq(inner, other), ord |-> cmp(inner, other)]
    /\ op' = "cmp"
    /\ arg' = <<>>
    /\ pre' = <<>>
    /\ ret' = "Ok"
    /\ out' = <<>>
    /\ UNCHANGED <<inner, other>>

NextCmp ==
    \/ New
    \/ From(CmpFromCalls)
    \/ TryFrom(CmpTryFromCalls)
    \/ Snapshot
    \/ Compare

SpecCmp == Init /\ [][NextCmp]_vars

----------------------------------------------------------------------------
\* bytes_to_str as a pure function of its argument.

InitDecode ==
    /\ inner = new
    /\ other = new
    /\ op = "input"
    /\ arg \in DecodeInputs
    /\ pre = <<>>
    /\ ret = "Ok"
    /\ out = <<>>
    /\ rel = NoRel

\* bytes_to_str(arg)
BytesToStr ==
    /\ op = "input"
    /\ LET r == bytes_to_str(arg) IN
        /\ ret' = r.tag
        /\ out' = r.val
    /\ op' = "bytes_to_str"
    /\ UNCHANGED <<inner, other, arg, pre, rel>>

NextDecode == BytesToStr

SpecDecode == InitDecode /\ [][NextDecode]_vars

----------------------------------------------------------------------------
\* Vocabulary of the properties, stated on the buffer rather than through
\* the accessors.

\* 1-based position of the first zero byte, Len(buf)+1 if there is none
FirstZero(buf) ==
    IF \E i \in 1..Len(buf) : buf[i] = 0
    THEN CHOOSE i \in 1..Len(buf) :
            buf[i] = 0 /\ \A j \in 1..(i - 1) : buf[j] # 0
    ELSE Len(buf) + 1

\* logical content: the bytes before the first zero byte
Logical(buf) == SubSeq(buf, 1, FirstZero(buf) - 1)

\* the first Cap bytes of b, zero padded to Cap bytes
Padded(b) == [i \in 1..Cap |-> IF i <= Len(b) THEN b[i] ELSE 0]

ValidUtf8(b) == Utf8ValidFrom(b, 0)

\* the longest valid-UTF-8 prefix of t of at most Cap bytes
LongestValidPrefix(t) ==
    LET m == Min(Len(t), Cap)
        n == CHOOSE n \in 0..m :
                /\ ValidUtf8(SubSeq(t, 1, n))
                /\ \A k \in (n + 1)..m : ~ValidUtf8(SubSeq(t, 1, k))
    IN  SubSeq(t, 1, n)

\* lexicographic order of byte strings
LexLess(x, y) ==
    \E k \in 0..Min(Len(x), Len(y)) :
        /\ SubSeq(x, 1, k) = SubSeq(y, 1, k)
        /\ \/ k = Len(x) /\ k < Len(y)
           \/ k < Len(x) /\ k < Len(y) /\ x[k + 1] < y[k + 1]

LexOrd(x, y) ==
    IF x = y THEN "Equal" ELSE IF LexLess(x, y) THEN "Less" ELSE "Greater"

\* 0-based index of the first non-zero byte, Len(b) if there is none
FirstNonZeroIndex(b) ==
    IF \E i \in 0..(Len(b) - 1) : At(b, i) # 0
    THEN CHOOSE i \in 0..(Len(b) - 1) :
            At(b, i) # 0 /\ \A j \in 0..(i - 1) : At(b, j) = 0
    ELSE Len(b)

\* 0-based index of the first zero byte at or after start, Len(b) if none
FirstZeroIndexFrom(b, start) ==
    IF \E i \in start..(Len(b) - 1) : At(b, i) = 0
    THEN CHOOSE i \in start..(Len(b) - 1) :
            At(b, i) = 0 /\ \A j \in start..(i - 1) : At(b, j) # 0
    ELSE Len(b)

\* what bytes_to_str is specified to return
DecodeExpected(b) ==
    LET start == FirstNonZeroIndex(b)
        stop  == FirstZeroIndexFrom(b, start)
        span  == SubSeq(b, start + 1, stop)
    IN  IF Len(b) = 0 THEN [tag |-> "Ok", val |-> <<>>]
        ELSE IF start >= Len(b) - 1 THEN [tag |-> "Ok", val |-> <<>>]
        ELSE IF ValidUtf8(span) THEN [tag |-> "Ok", val |-> span]
        ELSE [tag |-> "Err", val |-> <<>>]

----------------------------------------------------------------------------
\* C1: the logical content (the bytes before the first zero byte) of every
\* KeyString reachable through new, from, a successful try_from and push is
\* valid UTF-8.
C1_LogicalContentIsUtf8 ==
    ret # "panic" => ValidUtf8(Logical(inner))

\* C2: in every reachable KeyString no non-zero byte follows a zero byte:
\* raw() is the logical content followed by zero bytes only.
C2_ZeroPaddedLayout ==
    ret # "panic" =>
        /\ \A i, j \in 1..Cap : (i < j /\ inner[i] = 0) => inner[j] = 0
        /\ raw(inner) = Logical(inner) \o Zeros(Cap - Len(Logical(inner)))

\* C3: KeyString::from(t) never fails and as_str() is the longest valid
\* UTF-8 prefix of t of at most 64 bytes; it is t when t has at most 64 bytes.
C3_FromKeepsLongestValidPrefix ==
    op = "from" =>
        /\ ret = "Ok"
        /\ as_str(inner) = LongestValidPrefix(arg)
        /\ Len(arg) <= Cap => as_str(inner) = arg

\* C4: push(s) with L + len(s) <= 64 returns normally, writes s at the index
\* of the first zero byte, and leaves the logical content old ++ s of length
\* L + len(s).
C4_PushAppends ==
    (op = "push" /\ Len(Logical(pre)) + Len(arg) <= Cap) =>
        /\ ret = "Ok"
        /\ Logical(inner) = Logical(pre) \o arg
        /\ len(inner) = Len(Logical(pre)) + Len(arg)
        /\ SubSeq(inner, FirstZero(pre), FirstZero(pre) + Len(arg) - 1) = arg

\* C5: push(s) leaves the whole buffer unchanged and signals no error when
\* s is empty or L + len(s) > 64.
C5_PushNoOp ==
    (op = "push" /\ (Len(arg) = 0 \/ Len(Logical(pre)) + Len(arg) > Cap)) =>
        /\ inner = pre
        /\ ret = "Ok"

\* a push refused for capacity on a buffer that is not full
C5_Witness ==
    /\ op = "push"
    /\ Len(arg) > 0
    /\ Len(Logical(pre)) > 0
    /\ Len(Logical(pre)) < Cap
    /\ Len(Logical(pre)) + Len(arg) > Cap
    /\ inner = pre

\* C6: a == b iff the logical texts are equal; cmp is the lexicographic order
\* of the logical texts and is Equal iff a == b.
C6_EqualityOnLogicalText ==
    op = "cmp" =>
        /\ rel.eq <=> (Logical(inner) = Logical(other))
        /\ rel.ord = LexOrd(Logical(inner), Logical(other))
        /\ (rel.ord = "Equal") <=> rel.eq

\* C7: try_from(b) is Err exactly when the first min(len(b), 64) bytes of b,
\* zero padded to 64 bytes, are not valid UTF-8 as a whole; otherwise it is
\* Ok with that buffer.
C7_TryFromValidatesPaddedBuffer ==
    op = "try_from" =>
        /\ (ret = "Err") <=> ~ValidUtf8(Padded(arg))
        /\ (ret = "Ok") <=> ValidUtf8(Padded(arg))
        /\ ret = "Ok" => inner = Padded(arg)

\* valid text longer than 64 bytes is refused: the cut is not moved back to a
\* character boundary
C7_Witness ==
    /\ op = "try_from"
    /\ ret = "Err"
    /\ Len(arg) > Cap
    /\ ValidUtf8(arg)

\* C8: after a successful try_from(b), raw() is the zero-padded buffer of b,
\* and try_from(raw()) succeeds with an equal value.
C8_RawRoundTrip ==
    /\ (op = "try_from" /\ ret = "Ok") => raw(inner) = Padded(arg)
    /\ op = "rebuild" => (ret = "Ok" /\ eq(inner, pre))

\* a value with padding was rebuilt from its raw bytes
C8_Witness ==
    /\ op = "rebuild"
    /\ ret = "Ok"
    /\ inner = pre
    /\ Len(Logical(inner)) > 0
    /\ Len(Logical(inner)) < Cap

\* C9: Display does not panic and renders exactly as_str().
C9_DisplayIsLogicalText ==
    op = "display" =>
        /\ ret = "Ok"
        /\ out = as_str(inner)

====
